---------------------------- MODULE Spec2Model ----------------------------
(***************************************************************************)
(* Two independent Streamlit scripts:                                      *)
(*   - the Responder (src/reply.py): an HR e-mail reply generator with a   *)
(*     cached generate_email helper and a draft kept in the session state; *)
(*   - the Planner (src/meal.py): a weekly meal plan generator that calls  *)
(*     the generation API and renders the parsed JSON.                     *)
(* A Streamlit script is re-run from top to bottom on every interaction;   *)
(* what survives a run is the session state and the cache.  Text is a      *)
(* sequence of one-character strings so that strip() is computed.          *)
(***************************************************************************)
EXTENDS Integers, Sequences, FiniteSets, TLC

(***************************************************************************)
(* Text helpers                                                            *)
(***************************************************************************)
Whitespace == {" ", "\n"}

RECURSIVE LStrip(_)
LStrip(s) ==
  IF s = <<>> THEN <<>>
  ELSE IF Head(s) \in Whitespace THEN LStrip(Tail(s)) ELSE s

RECURSIVE RStrip(_)
RStrip(s) ==
  IF s = <<>> THEN <<>>
  ELSE IF s[Len(s)] \in Whitespace THEN RStrip(SubSeq(s, 1, Len(s) - 1)) ELSE s

\* str.strip(): leading and trailing whitespace removed
Strip(s) == RStrip(LStrip(s))

(***************************************************************************)
(* RESPONDER  (src/reply.py)                                               *)
(***************************************************************************)

\* the fixed text the regenerate button stores
PLACEHOLDER ==
  << "T","h","a","n","k"," ","y","o","u"," ","f","o","r"," ",
     "y","o","u","r"," ","a","p","p","l","i","c","a","t","i","o","n","." >>

\* form widgets: the options of the select box and the radio, and the
\* defaults of the text inputs together with one edited value each
FormatOptions == {"Acknowledgement", "Rejection"}
ToneOptions   == {"Formal", "Friendly"}
NameValues    == {"John Doe", "Jane Roe"}
RoleValues    == {"Software Engineer", "Analyst"}
CompanyValues == {"Acme Corp", "Initech"}
ApplicantTexts == { <<>>, <<" ">>, <<"a">>, <<"a", " ">> }

\* the form as first rendered (lines 45-52), with a message pasted
BaseForm ==
  [ applicant_text |-> <<"a">>, tone |-> "Formal", format_type |-> "Acknowledgement",
    name |-> "John Doe", role |-> "Software Engineer", company |-> "Acme Corp" ]

AllForms ==
  [ applicant_text : ApplicantTexts, tone : ToneOptions, format_type : FormatOptions,
    name : NameValues, role : RoleValues, company : CompanyValues ]

Edited(f) == { k \in DOMAIN BaseForm : f[k] # BaseForm[k] }

\* the submissions explored: the base form with at most one widget changed
FormInputs == { f \in AllForms : Cardinality(Edited(f)) <= 1 }

\* what response.text of the model may be
RawReplies == { <<"a", " ">>, <<" ", "b">>, <<" ">> }

\* cap on completed model calls in one exploration
MaxCalls == 2

VARIABLES
  email_content,   \* st.session_state.email_content
  cache,           \* st.cache_data store of generate_email: set of [key, value]
  rpc,             \* "idle" (run finished) | "generating" (inside model.generate_content)
  form,            \* widget values of the current / last run
  lastRun,         \* what triggered the current / last run
  st_error,        \* validation message shown in the run
  st_exception,    \* uncaught exception shown in the run
  draft_section,   \* [shown, text]: the "Generated Email" section of the run
  regen_button,    \* the regenerate button was rendered in the run
  gen_invoked,     \* generate_email was invoked in the run
  model_called,    \* model.generate_content was called in the run
  prev_content,    \* history: email_content when the current / last run started
  completed,       \* history: arguments -> number of completed model calls
  firstDraft       \* history: set of [args, value], the first completed draft per arguments

rvars == << email_content, cache, rpc, form, lastRun, st_error, st_exception,
            draft_section, regen_button, gen_invoked, model_called,
            prev_content, completed, firstDraft >>

\* the Planner's state (src/meal.py)
VARIABLES
  dietary_preferences,   \* the text area of the current / last run
  ppc,                   \* "idle" | "api" | "plan" | "days" | "shopping": place in the run
  generate_button,       \* the button's value in the current / last run
  run_end,               \* "running" | "finished" | "exception": how the run ended
  api_calls,             \* requests.post calls of the run
  response,              \* what the API call of the run came to
  meal_plan_data,        \* [none, value]: what generate_meal_plan returned
  messages,              \* st.warning / info / error / success / ... of the run
  tabs,                  \* titles given to st.tabs
  sections,              \* one per st.subheader: [label, meals, placeholder]
  checklist,             \* the checkboxes of the shopping list
  day_i                  \* the loop index of line 172 (1-based)

pvars == << dietary_preferences, ppc, generate_button, run_end, api_calls, response,
            meal_plan_data, messages, tabs, sections, checklist, day_i >>

NoSection == [shown |-> FALSE, text |-> <<>>]

\* the arguments of the call generate_email(...) of line 66
Args(f) ==
  << f.applicant_text, f.tone, f.format_type, f.name, f.role, f.company >>

\* a cache that overlooks the tone
CacheKeyWithoutTone(f) ==
  << f.applicant_text, f.format_type, f.name, f.role, f.company >>

\* the key st.cache_data derives from a call: all of its arguments
CacheKey(f) == Args(f)

CacheHas(c, f) == \E e \in c : e.key = CacheKey(f)
CacheGet(c, f) == (CHOOSE e \in c : e.key = CacheKey(f)).value

\* a validation that forgets strip()
MessageMissingUnstripped(f) == f.applicant_text = <<>>

\* line 62: applicant_text.strip() == ""
MessageMissing(f) == Strip(f.applicant_text) = <<>>

\* line 70: if st.session_state.email_content:
DraftVisible(ec) == ec # <<>>

\* a helper that returns response.text as it came
ReplyTextUnstripped(raw) == raw

\* line 25: return response.text.strip()
ReplyText(raw) == Strip(raw)

\* a regenerate button that clears the draft
RegenerateClears(f) == <<>>

\* line 87: the value the regenerate button stores
RegenerateValue(f) == PLACEHOLDER

SumCompleted ==
  LET RECURSIVE Sum(_)
      Sum(S) == IF S = {} THEN 0
                ELSE LET k == CHOOSE x \in S : TRUE
                     IN completed[k] + Sum(S \ {k})
  IN Sum(DOMAIN completed)

\* lines 70-86 up to the button: the draft section of a run, shown for ec
Display(ec) ==
  /\ draft_section' = IF DraftVisible(ec) THEN [shown |-> TRUE, text |-> ec]
                      ELSE NoSection
  /\ regen_button' = DraftVisible(ec)

RInit ==
  /\ email_content = <<>>
  /\ cache = {}
  /\ rpc = "idle"
  /\ form = BaseForm
  /\ lastRun = "load"
  /\ st_error = FALSE
  /\ st_exception = FALSE
  /\ draft_section = NoSection
  /\ regen_button = FALSE
  /\ gen_invoked = FALSE
  /\ model_called = FALSE
  /\ prev_content = <<>>
  /\ completed = [k \in {Args(f) : f \in FormInputs} |-> 0]
  /\ firstDraft = {}

\* a run with the form submitted and the message blank: lines 61-63, then 70-87
SubmitBlank(f) ==
  /\ UNCHANGED pvars
  /\ rpc = "idle"
  /\ prev_content' = email_content
  /\ MessageMissing(f)
  /\ form' = f
  /\ lastRun' = "submit"
  /\ st_error' = TRUE
  /\ st_exception' = FALSE
  /\ gen_invoked' = FALSE
  /\ model_called' = FALSE
  /\ Display(email_content)
  /\ UNCHANGED << email_content, cache, rpc, completed, firstDraft >>

\* a run with the form submitted, generate_email answered from the cache
SubmitCached(f) ==
  /\ UNCHANGED pvars
  /\ rpc = "idle"
  /\ prev_content' = email_content
  /\ ~MessageMissing(f)
  /\ CacheHas(cache, f)
  /\ form' = f
  /\ lastRun' = "submit"
  /\ st_error' = FALSE
  /\ st_exception' = FALSE
  /\ gen_invoked' = TRUE
  /\ model_called' = FALSE
  /\ email_content' = CacheGet(cache, f)
  /\ Display(email_content')
  /\ UNCHANGED << cache, rpc, completed, firstDraft >>

\* a run with the form submitted, generate_email not cached: the body runs
\* and blocks in model.generate_content (line 24)
SubmitMiss(f) ==
  /\ UNCHANGED pvars
  /\ rpc = "idle"
  /\ prev_content' = email_content
  /\ ~MessageMissing(f)
  /\ ~CacheHas(cache, f)
  /\ SumCompleted < MaxCalls
  /\ form' = f
  /\ lastRun' = "submit"
  /\ st_error' = FALSE
  /\ st_exception' = FALSE
  /\ gen_invoked' = TRUE
  /\ model_called' = TRUE
  /\ draft_section' = NoSection
  /\ regen_button' = FALSE
  /\ rpc' = "generating"
  /\ UNCHANGED << email_content, cache, completed, firstDraft >>

\* the model answers: lines 24-25, the cache stores the value, lines 67, 70-87
ModelReturns(raw) ==
  /\ UNCHANGED pvars
  /\ rpc = "generating"
  /\ LET v == ReplyText(raw) IN
       /\ cache' = cache \cup {[key |-> CacheKey(form), value |-> v]}
       /\ email_content' = v
       /\ Display(v)
       /\ firstDraft' = IF completed[Args(form)] = 0
                        THEN firstDraft \cup {[args |-> Args(form), value |-> v]}
                        ELSE firstDraft
  /\ completed' = [completed EXCEPT ![Args(form)] = @ + 1]
  /\ rpc' = "idle"
  /\ UNCHANGED << form, lastRun, st_error, st_exception, gen_invoked, model_called,
                  prev_content >>

\* the model call (or response.text) raises: nothing is cached, the script
\* stops at line 66 and Streamlit shows the exception
ModelRaises ==
  /\ UNCHANGED pvars
  /\ rpc = "generating"
  /\ st_exception' = TRUE
  /\ rpc' = "idle"
  /\ UNCHANGED << email_content, cache, form, lastRun, st_error, draft_section,
                  regen_button, gen_invoked, model_called, prev_content,
                  completed, firstDraft >>

\* the regenerate button, rendered in the last run, is clicked: the run has
\* submitted = False and the form widgets keep their last submitted values;
\* it shows the section, and line 87 stores the fixed text
ClickRegenerate ==
  /\ UNCHANGED pvars
  /\ rpc = "idle"
  /\ prev_content' = email_content
  /\ regen_button
  /\ lastRun' = "regenerate"
  /\ st_error' = FALSE
  /\ st_exception' = FALSE
  /\ gen_invoked' = FALSE
  /\ model_called' = FALSE
  /\ Display(email_content)
  /\ email_content' = IF DraftVisible(email_content) THEN RegenerateValue(form)
                      ELSE email_content
  /\ UNCHANGED << cache, rpc, form, completed, firstDraft >>

\* any other interaction (the download button, an edit outside the form)
Rerun ==
  /\ UNCHANGED pvars
  /\ rpc = "idle"
  /\ prev_content' = email_content
  /\ lastRun' = "rerun"
  /\ st_error' = FALSE
  /\ st_exception' = FALSE
  /\ gen_invoked' = FALSE
  /\ model_called' = FALSE
  /\ Display(email_content)
  /\ UNCHANGED << email_content, cache, rpc, form, completed, firstDraft >>

RNext ==
  \/ \E f \in FormInputs : SubmitBlank(f)
  \/ \E f \in FormInputs : SubmitCached(f)
  \/ \E f \in FormInputs : SubmitMiss(f)
  \/ \E raw \in RawReplies : ModelReturns(raw)
  \/ ModelRaises
  \/ ClickRegenerate
  \/ Rerun


(***************************************************************************)
(* PLANNER  (src/meal.py)                                                  *)
(***************************************************************************)

\* bounds of the responses explored
MaxDays  == 2      \* day entries of a freely shaped weekly_meal_plan
MaxMeals == 1      \* meals of one day
MaxItems == 4      \* items of the shopping list

\* the week the prompt asks for (line 22) and the columns of the checklist
WeekDays == 7
Columns  == 3

DayNames ==
  << "Monday", "Tuesday", "Wednesday", "Thursday", "Friday", "Saturday", "Sunday" >>
Labels == {"Monday", "Tuesday"}
ItemNames == << "oats", "tofu", "rice", "kale", "miso", "figs" >>

\* values of the preferences text area
PrefValues == { <<>>, <<" ">>, <<"v">> }

\* a meal object: "full" has the four required keys, "partial" lacks recipe_name
RECURSIVE FullMeals(_)
FullMeals(k) == IF k = 0 THEN <<>> ELSE Append(FullMeals(k - 1), "full")

MealLists ==
  { FullMeals(k) : k \in 0..MaxMeals }
    \cup { Append(FullMeals(k - 1), "partial") : k \in 1..MaxMeals }

Absent == [has |-> FALSE, val |-> ""]
NoMeals == [has |-> FALSE, list |-> <<>>]

\* a day object: the keys 'day' and 'meals' may each be missing
DayEntries ==
  { [day |-> d, meals |-> m] :
      d \in {Absent} \cup { [has |-> TRUE, val |-> l] : l \in Labels },
      m \in {NoMeals} \cup { [has |-> TRUE, list |-> ml] : ml \in MealLists } }

RECURSIVE SeqsUpTo(_, _)
SeqsUpTo(S, n) ==
  IF n = 0 THEN { <<>> }
  ELSE LET shorter == SeqsUpTo(S, n - 1)
       IN shorter \cup { Append(q, x) : q \in { r \in shorter : Len(r) = n - 1 }, x \in S }

\* a schema-conforming week of n days named in order, all with the same meals
UniformWeek(n, ml) ==
  [ i \in 1..n |-> [day |-> [has |-> TRUE, val |-> DayNames[i]],
                    meals |-> [has |-> TRUE, list |-> ml]] ]

DayLists ==
  SeqsUpTo(DayEntries, MaxDays)
    \cup { UniformWeek(n, ml) : n \in 1..WeekDays, ml \in { <<>>, <<"full">> } }

ShoppingLists == { SubSeq(ItemNames, 1, k) : k \in 0..MaxItems }

\* the value json.loads returns: "null" stands for a falsy value (null, 0, "",
\* [], {}), "scalar" for a truthy value that is no object, "object" for an
\* object whose keys weekly_meal_plan and shopping_list may each be missing
NullValue ==
  [ kind |-> "null", wmp |-> [has |-> FALSE, days |-> <<>>],
    shop |-> [has |-> FALSE, items |-> <<>>] ]

\* an object with neither key is {} and counts as "null"
Objects ==
  { [ kind |-> "object", wmp |-> w, shop |-> sh ] :
      w \in { [has |-> FALSE, days |-> <<>>] }
              \cup { [has |-> TRUE, days |-> dl] : dl \in DayLists },
      sh \in { [has |-> FALSE, items |-> <<>>] }
              \cup { [has |-> TRUE, items |-> il] : il \in ShoppingLists } }

ParsedValues ==
  { NullValue, [NullValue EXCEPT !.kind = "scalar"] }
    \cup { o \in Objects : o.wmp.has \/ o.shop.has }

\* what the API call may come to.  raised: the exception class the failure
\* arrives as; response.json() raises a RequestException subclass or a plain
\* JSONDecodeError / ValueError depending on the installed requests
Outcome(k, r) == [ kind |-> k, raised |-> r, parsed |-> NullValue ]

Responses ==
  { Outcome("network_error", "RequestException"),      \* line 95 raises
    Outcome("http_error", "RequestException") }        \* line 96 raises
  \cup { Outcome("body_not_json", r) :                 \* line 98 raises
           r \in {"RequestException", "JSONDecodeError", "Exception"} }
  \cup { Outcome(k, "") :                              \* line 101 is false
           k \in {"envelope_empty", "no_candidates", "no_content", "no_parts", "no_text"} }
  \cup { Outcome("envelope_not_indexable", "Exception"),   \* line 101 raises
         Outcome("text_not_json", "JSONDecodeError") }     \* line 106 raises
  \cup { [ kind |-> "text_json", raised |-> "", parsed |-> v ] : v \in ParsedValues }

NoResponse == Outcome("none", "")

None == [none |-> TRUE, value |-> NullValue]
Some(v) == [none |-> FALSE, value |-> v]

\* a validation that never fires
PreferencesMissingNever(p) == FALSE

\* line 154: if not dietary_preferences
PreferencesMissing(p) == p = <<>>

\* lines 93-122: what generate_meal_plan returns for an outcome
Returned(r) == IF r.kind = "text_json" THEN Some(r.parsed) ELSE None

\* lines 108-122: what generate_meal_plan shows for an outcome
Reported(r) ==
  CASE r.kind = "text_json" -> {}
    [] r.kind \in {"envelope_empty", "no_candidates", "no_content", "no_parts", "no_text"}
         -> {"error_format", "raw_json"}
    [] r.raised = "RequestException" -> {"error_connect"}
    [] r.raised = "JSONDecodeError" -> {"error_parse", "raw_text"}
    [] OTHER -> {"error_unexpected"}

\* line 164: if meal_plan_data
Truthy(d) ==
  /\ ~d.none
  /\ \/ d.value.kind = "scalar"
     \/ d.value.kind = "object" /\ (d.value.wmp.has \/ d.value.shop.has)

\* titles that miss the first day
TabTitlesAfterFirst(days) == [ i \in 1..(Len(days) - 1) |-> days[i + 1].day.val ]

\* line 169: the tab titles
TabTitles(days) == [ i \in 1..Len(days) |-> days[i].day.val ]

\* lines 176-183: the meals rendered before one lacks a key
RECURSIVE RenderedMeals(_)
RenderedMeals(ml) ==
  IF ml = <<>> \/ Head(ml) # "full" THEN <<>>
  ELSE << Head(ml) >> \o RenderedMeals(Tail(ml))

\* a checklist that stops one item early
ChecklistButLast(items) ==
  [ j \in 1..(Len(items) - 1) |->
      [ col |-> (j - 1) % Columns, label |-> items[j], key |-> j - 1 ] ]

\* lines 191-193: one checkbox per item, in three columns, keyed by index
Checklist(items) ==
  [ j \in 1..Len(items) |->
      [ col |-> (j - 1) % Columns, label |-> items[j], key |-> j - 1 ] ]

\* line 189: meal_plan_data.get('shopping_list', [])
ShoppingList(v) == IF v.shop.has THEN v.shop.items ELSE <<>>

PInit ==
  /\ dietary_preferences = <<"v">>
  /\ ppc = "idle"
  /\ generate_button = FALSE
  /\ run_end = "finished"
  /\ api_calls = 0
  /\ response = NoResponse
  /\ meal_plan_data = None
  /\ messages = {}
  /\ tabs = <<>>
  /\ sections = <<>>
  /\ checklist = <<>>
  /\ day_i = 1

\* a run the button did not start: nothing below line 153 runs
RerunWithoutPress(p) ==
  /\ UNCHANGED rvars
  /\ ppc = "idle"
  /\ dietary_preferences' = p
  /\ generate_button' = FALSE
  /\ run_end' = "finished"
  /\ api_calls' = 0
  /\ response' = NoResponse
  /\ meal_plan_data' = None
  /\ messages' = {}
  /\ tabs' = <<>>
  /\ sections' = <<>>
  /\ checklist' = <<>>
  /\ day_i' = 1
  /\ UNCHANGED ppc

\* the button is pressed: lines 153-162 up to requests.post (line 95)
PressGenerate(p) ==
  /\ UNCHANGED rvars
  /\ ppc = "idle"
  /\ dietary_preferences' = p
  /\ generate_button' = TRUE
  /\ response' = NoResponse
  /\ meal_plan_data' = None
  /\ tabs' = <<>>
  /\ sections' = <<>>
  /\ checklist' = <<>>
  /\ day_i' = 1
  /\ IF PreferencesMissing(p)
     THEN /\ messages' = {"warning"}
          /\ api_calls' = 0
          /\ run_end' = "finished"
          /\ UNCHANGED ppc
     ELSE /\ messages' = {"info"}
          /\ api_calls' = 1
          /\ run_end' = "running"
          /\ ppc' = "api"

\* the call ends: lines 95-122, generate_meal_plan returns
ApiResponds ==
  /\ UNCHANGED rvars
  /\ ppc = "api"
  /\ \E r \in Responses :
       /\ response' = r
       /\ meal_plan_data' = Returned(r)
       /\ messages' = messages \cup Reported(r)
  /\ ppc' = "plan"
  /\ UNCHANGED << dietary_preferences, generate_button, run_end, api_calls,
                  tabs, sections, checklist, day_i >>

\* lines 164-170: the success banner, the header and the tabs
BeginRender ==
  /\ UNCHANGED rvars
  /\ ppc = "plan"
  /\ IF ~Truthy(meal_plan_data)
     THEN /\ run_end' = "finished"
          /\ ppc' = "idle"
          /\ UNCHANGED << messages, tabs >>
     ELSE LET v == meal_plan_data.value IN
          /\ messages' = messages \cup {"success", "header_plan"}
          /\ IF \/ v.kind # "object"                              \* line 169: TypeError
                \/ ~v.wmp.has                                     \* line 169: KeyError
                \/ \E i \in 1..Len(v.wmp.days) : ~v.wmp.days[i].day.has  \* KeyError
                \/ v.wmp.days = <<>>                              \* line 170: st.tabs([])
             THEN /\ run_end' = "exception"
                  /\ ppc' = "idle"
                  /\ UNCHANGED tabs
             ELSE /\ tabs' = TabTitles(v.wmp.days)
                  /\ ppc' = "days"
                  /\ UNCHANGED run_end
  /\ UNCHANGED << dietary_preferences, generate_button, api_calls, response,
                  meal_plan_data, sections, checklist, day_i >>

\* lines 172-185 for one day
RenderDay ==
  /\ UNCHANGED rvars
  /\ ppc = "days"
  /\ LET days == meal_plan_data.value.wmp.days
         d == days[day_i]
         section(ms, ph) == [label |-> d.day.val, meals |-> ms, placeholder |-> ph]
     IN
       IF ~d.meals.has                                   \* line 175: KeyError
       THEN /\ sections' = Append(sections, section(<<>>, FALSE))
            /\ run_end' = "exception"
            /\ ppc' = "idle"
            /\ UNCHANGED day_i
       ELSE IF d.meals.list = <<>>                       \* line 185
       THEN /\ sections' = Append(sections, section(<<>>, TRUE))
            /\ day_i' = day_i + 1
            /\ ppc' = IF day_i = Len(days) THEN "shopping" ELSE "days"
            /\ UNCHANGED run_end
       ELSE /\ sections' = Append(sections, section(RenderedMeals(d.meals.list), FALSE))
            /\ IF \E j \in 1..Len(d.meals.list) : d.meals.list[j] # "full"   \* line 177
               THEN /\ run_end' = "exception"
                    /\ ppc' = "idle"
                    /\ UNCHANGED day_i
               ELSE /\ day_i' = day_i + 1
                    /\ ppc' = IF day_i = Len(days) THEN "shopping" ELSE "days"
                    /\ UNCHANGED run_end
  /\ UNCHANGED << dietary_preferences, generate_button, api_calls, response,
                  meal_plan_data, messages, tabs, checklist >>

\* lines 188-195: the shopping list
RenderShopping ==
  /\ UNCHANGED rvars
  /\ ppc = "shopping"
  /\ LET shopping_list == ShoppingList(meal_plan_data.value) IN
       IF shopping_list # <<>>
       THEN /\ checklist' = Checklist(shopping_list)
            /\ messages' = messages \cup {"header_shopping"}
       ELSE /\ messages' = messages \cup {"header_shopping", "no_shopping_list"}
            /\ UNCHANGED checklist
  /\ run_end' = "finished"
  /\ ppc' = "idle"
  /\ UNCHANGED << dietary_preferences, generate_button, api_calls, response,
                  meal_plan_data, tabs, sections, day_i >>

PNext ==
  \/ \E p \in PrefValues : RerunWithoutPress(p)
  \/ \E p \in PrefValues : PressGenerate(p)
  \/ ApiResponds
  \/ BeginRender
  \/ RenderDay
  \/ RenderShopping

vars == << rvars, pvars >>

PlannerInit == PInit /\ RInit

PlannerSpec == PlannerInit /\ [][PNext]_vars

ResponderInit == RInit /\ PInit

ResponderSpec == ResponderInit /\ [][RNext]_vars

(***************************************************************************)
(* Responder: properties                                                   *)
(***************************************************************************)

\* a message with no non-whitespace character
IsBlank(t) == \A i \in 1..Len(t) : t[i] \in Whitespace

RunFinished == rpc = "idle"

\* C2: a submission whose message is empty or only whitespace does not invoke
\* generate_email (nor the model) and shows the validation message;
\* generate_email is invoked only for a message with non-whitespace content.
C2_BlankMessageNeverGenerates ==
  /\ (lastRun = "submit" /\ IsBlank(form.applicant_text))
        => (~gen_invoked /\ ~model_called /\ st_error)
  /\ gen_invoked => (lastRun = "submit" /\ ~IsBlank(form.applicant_text))

C2_Witness ==
  /\ RunFinished /\ lastRun = "submit"
  /\ form.applicant_text = <<" ">>
  /\ st_error /\ ~gen_invoked

\* C8: the model completes at most one call per argument tuple; a submission
\* served without a model call is one whose exact tuple completed before, and
\* it retains the draft of that first completed call; every other valid
\* submission calls the model; the cache holds the completed calls only, so
\* a call that raised left nothing behind.
C8_OneModelCallPerTuple ==
  /\ \A k \in DOMAIN completed : completed[k] <= 1
  /\ (lastRun = "submit" /\ gen_invoked /\ ~model_called)
        => \E e \in firstDraft : e.args = Args(form) /\ email_content = e.value
  /\ (lastRun = "submit" /\ gen_invoked /\ completed[Args(form)] = 0)
        => model_called
  /\ Cardinality(cache) = SumCompleted
  /\ (st_exception /\ completed[Args(form)] = 0) => ~(\E e \in cache : e.key = Args(form))

C8_Witness ==
  /\ RunFinished /\ lastRun = "submit" /\ gen_invoked /\ ~model_called
  /\ SumCompleted >= 2
  /\ email_content = <<"b">>

\* C9: the regenerate button is rendered only while the session holds a
\* non-empty draft; a run it triggers leaves the fixed placeholder in
\* email_content whatever the form holds, and calls neither generate_email
\* nor the model.
C9_RegenerateStoresPlaceholder ==
  /\ regen_button => email_content # <<>>
  /\ lastRun = "regenerate"
        => (email_content = PLACEHOLDER /\ ~gen_invoked /\ ~model_called)

C9_Witness ==
  /\ lastRun = "regenerate"
  /\ email_content = PLACEHOLDER
  /\ form.tone = "Friendly"
  /\ prev_content = <<"a">>

\* what a run may have done to email_content
ContentFrame ==
  /\ (lastRun = "submit" /\ IsBlank(form.applicant_text)) => email_content = prev_content
  /\ email_content # prev_content
        => \/ /\ lastRun = "submit" /\ gen_invoked /\ ~st_exception
              /\ \E raw \in RawReplies : email_content = Strip(raw)
           \/ lastRun = "regenerate" /\ email_content = PLACEHOLDER

ConformsToSchema(v) ==
  /\ v.kind = "object"
  /\ v.wmp.has
  /\ v.shop.has
  /\ \A i \in 1..Len(v.wmp.days) :
       /\ v.wmp.days[i].day.has
       /\ v.wmp.days[i].meals.has
       /\ \A j \in 1..Len(v.wmp.days[i].meals.list) : v.wmp.days[i].meals.list[j] = "full"

PressRunEnded == generate_button /\ ppc = "idle"

ErrorMessages == {"warning", "error_connect", "error_format", "error_parse", "error_unexpected"}
ErrorShown == messages \cap ErrorMessages # {}
RawPayloadShown == messages \cap {"raw_json", "raw_text"} # {}

NothingRendered ==
  /\ messages \cap {"success", "header_plan", "header_shopping", "no_shopping_list"} = {}
  /\ tabs = <<>>
  /\ sections = <<>>
  /\ checklist = <<>>

\* C1: a press of the button with empty preferences makes no API call in that
\* run and shows the validation warning; an API call is made only in a run
\* started by the button with non-empty preferences.
C1_EmptyPreferencesNeverCallApi ==
  /\ (generate_button /\ dietary_preferences = <<>>)
        => (api_calls = 0 /\ "warning" \in messages /\ response = NoResponse)
  /\ (api_calls > 0 \/ response # NoResponse)
        => (generate_button /\ dietary_preferences # <<>>)

C1_Witness ==
  /\ PressRunEnded /\ dietary_preferences = <<>>
  /\ "warning" \in messages /\ api_calls = 0

\* C3 as stated: whatever the API call comes to, unless the response conforms
\* fully to the schema the run ends with an error message shown and nothing
\* of a plan rendered.
C3_AsStated ==
  (PressRunEnded /\ api_calls = 1
     /\ ~(response.kind = "text_json" /\ ConformsToSchema(response.parsed)))
    => (ErrorShown /\ NothingRendered /\ run_end = "finished")

\* C4: for a response that conforms to the schema with n day entries, the run
\* ends with exactly n tabs and n day sections, the i-th titled and labelled
\* with the i-th entry's day value.
C4_OneSectionPerDay ==
  (PressRunEnded /\ response.kind = "text_json" /\ ConformsToSchema(response.parsed))
    => LET days == response.parsed.wmp.days IN
         /\ Len(tabs) = Len(days)
         /\ Len(sections) = Len(days)
         /\ \A i \in 1..Len(days) :
              /\ tabs[i] = days[i].day.val
              /\ sections[i].label = days[i].day.val

C4_Witness ==
  /\ PressRunEnded /\ run_end = "finished"
  /\ dietary_preferences # <<>>
  /\ ConformsToSchema(response.parsed)
  /\ Len(response.parsed.wmp.days) = WeekDays
  /\ Len(sections) = WeekDays
  /\ sections[WeekDays].label = "Sunday"

\* a plan whose only departure from the schema may be a day without 'meals'
OnlyMealsMayBeMissing(v) ==
  /\ v.kind = "object" /\ v.wmp.has /\ v.shop.has
  /\ \A i \in 1..Len(v.wmp.days) :
       /\ v.wmp.days[i].day.has
       /\ \A j \in 1..Len(v.wmp.days[i].meals.list) : v.wmp.days[i].meals.list[j] = "full"

MealsMissingOrEmpty(d) == ~d.meals.has \/ d.meals.list = <<>>

\* C5 as stated: when a parsed plan is rendered, every day entry whose meals
\* array is missing or empty gets its labelled section with the "No meals
\* planned for this day." placeholder, and rendering goes on to the remaining
\* days and the shopping list.
C5_AsStated ==
  (PressRunEnded /\ tabs # <<>> /\ OnlyMealsMayBeMissing(meal_plan_data.value))
    => LET days == meal_plan_data.value.wmp.days IN
         /\ Len(sections) = Len(days)
         /\ \A i \in 1..Len(days) :
              MealsMissingOrEmpty(days[i])
                => (sections[i].label = days[i].day.val /\ sections[i].placeholder)
         /\ "header_shopping" \in messages

ShapeFailure(r) ==
  \/ r.kind \in { "body_not_json", "envelope_empty", "no_candidates", "no_content",
                  "no_parts", "no_text", "envelope_not_indexable", "text_not_json" }
  \/ r.kind = "text_json" /\ ~ConformsToSchema(r.parsed)

\* C7 as stated: every response-shape failure is reported together with the
\* raw payload, and generate_meal_plan returns None.
C7_AsStated ==
  (api_calls = 1 /\ response # NoResponse /\ ShapeFailure(response))
    => (ErrorShown /\ RawPayloadShown /\ meal_plan_data.none)

=============================================================================
